---- MODULE Spec2Model ----
(***************************************************************************)
(* Model of the research pipeline of deep_research_agent.py:               *)
(* PersistentCache, CostTracker, ddg_search, run_single_search,            *)
(* run_all_searches, generate_plan, generate_report and run_deep_research. *)
(*                                                                         *)
(* The pipeline runs on one asyncio event loop: the code between two       *)
(* awaits is atomic, so every action below is one such segment.  The       *)
(* suspension points are Runner.run (planner, summarizer, writer) and      *)
(* asyncio.sleep (batch pacing, retry backoff).  ddg_search and the        *)
(* progress callback are synchronous calls inside a segment.               *)
(***************************************************************************)
EXTENDS Integers, Sequences, FiniteSets, TLC

(* ---------------- program constants ---------------- *)
MAX_CONCURRENT_SEARCHES == 2
MAX_RETRIES == 3
\* cost estimates in thousandths of a dollar: 0.002, 0.002, 0.005
PLAN_COST == 2
SUMMARY_COST == 2
REPORT_COST == 5

(* ---------------- bounds of the model ---------------- *)
\* items planned over all the runs of one behaviour, runs per behaviour, and
\* times the progress callback raises inside the per-item calls of a behaviour
MaxItems == 3
MaxRuns == 2
MaxCallbackRaises == 1

Queries == {"q1", "q2"}
\* the query argument of a run, of two topics: topics are only compared with
\* each other, so a run is given the topic of the run before it or the other
Topics == {"same", "other"}
\* str(e) of the exceptions the model calls raise; asyncio.TimeoutError() has
\* an empty message
ExcMsgs == {"", "model error"}
\* the raw output of the summarizer for the snippets of a query, as a sequence
\* of characters (" " is whitespace)
SummarizerOutput(q) == IF q = "q1" THEN <<" ", "a", " ">> ELSE <<"b", " ">>
\* what the search provider does on one call
ProviderOutcomes == {"raise", "empty", "snippets"}
\* the progress_callback argument of a run: absent, or a callback, which
\* returns normally or raises each time it is called
CallbackModes == {"none", "present"}
SaveOutcomes == {"ok", "fails"}
\* readings of time.time() - start_time, rounded
Durations == {0, 1}

(* ---------------- strings and hashing ---------------- *)
RECURSIVE LStrip(_)
LStrip(s) == IF s # <<>> /\ Head(s) = " " THEN LStrip(Tail(s)) ELSE s

RECURSIVE RStrip(_)
RStrip(s) ==
  IF s # <<>> /\ s[Len(s)] = " " THEN RStrip(SubSeq(s, 1, Len(s) - 1)) ELSE s

\* str.strip()
Strip(s) == RStrip(LStrip(s))

\* hashlib.md5(key.encode()).hexdigest()
Md5(key) ==
  CASE key = "q1" -> "ff33f1b12213e021c2c4a888141953ba"
    [] key = "q2" -> "74d502a7131cdac90eecdfb0531c4e87"

Hashes == {Md5(q) : q \in Queries}

(* ---------------- values stored in the cache document ---------------- *)
\* A JSON value found under a hashed key.  present = FALSE is dict.get's None.
NoText == <<>>
Absent == [present |-> FALSE, isdict |-> FALSE, keys |-> {}, isstr |-> FALSE, text |-> NoText]
\* {"value": value, "timestamp": ...} as written by PersistentCache.set
CacheEntry(value) ==
  [present |-> TRUE, isdict |-> TRUE, keys |-> {"value", "timestamp"}, isstr |-> TRUE, text |-> value]
\* entries a document not written by set may hold
NoValueDict == [present |-> TRUE, isdict |-> TRUE, keys |-> {"timestamp"}, isstr |-> FALSE, text |-> NoText]
BareString == [present |-> TRUE, isdict |-> FALSE, keys |-> {}, isstr |-> TRUE, text |-> <<"a">>]

\* Python truth value of what dict.get returned
Truthy(v) == v.present /\ (IF v.isdict THEN v.keys # {} ELSE TRUE)

\* a parsed document: a JSON object (ismap) or any other JSON value
EmptyMap == [ismap |-> TRUE, map |-> [h \in Hashes |-> Absent]]
NotAMap == [ismap |-> FALSE, map |-> [h \in Hashes |-> Absent]]
MapOf(e1, e2) ==
  [ismap |-> TRUE, map |-> [h \in Hashes |-> IF h = Md5("q1") THEN e1 ELSE e2]]

\* the documents the cache file may hold when the process starts: not an
\* object, an entry written by set next to the bare string of an older
\* document, and an entry without its value
InitialDocs ==
  {NotAMap, MapOf(CacheEntry(<<"z">>), BareString), MapOf(NoValueDict, Absent)}

\* the cache file when the process starts: its state and, when it parses,
\* the parsed document
InitialDisks ==
  {[state |-> s, doc |-> EmptyMap] : s \in {"missing", "unreadable", "invalid_json"}}
  \cup {[state |-> "valid", doc |-> d] : d \in InitialDocs}

\* PersistentCache._load: FileNotFoundError and JSONDecodeError give {}; any
\* other error of open() or read() is not caught
LoadRaises(d) == d.state = "unreadable"
Load(d) == IF d.state = "valid" THEN d.doc ELSE EmptyMap

\* a variant of _save that lets the exception of a failing write through
SaveRaisesOnFailure(outcome) == outcome = "fails"

\* PersistentCache._save: every exception of open() and json.dump is logged
\* and swallowed, so a failing save raises nothing
SaveRaises(outcome) == FALSE

\* PersistentCache.get; raises AttributeError when the document is not an object
GetRaises(data) == ~data.ismap
Get(data, key) == data.map[Md5(key)]

\* a variant of set that writes the entry without its timestamp
SetWithoutTimestamp(data, key, value) ==
  [data EXCEPT !.map[Md5(key)] = [CacheEntry(value) EXCEPT !.keys = {"value"}]]

\* PersistentCache.set, the in-memory part
Set(data, key, value) ==
  [data EXCEPT !.map[Md5(key)] = CacheEntry(value)]

(* ---------------- CostTracker ---------------- *)
ZeroCosts == [calls |-> 0, estimated |-> 0]
\* CostTracker.add
Add(c, cost) == [calls |-> c.calls + 1, estimated |-> c.estimated + cost]
\* a variant of reset that keeps the counters
ResetKeeps(c) == c

\* CostTracker.reset
Reset(c) == ZeroCosts
\* CostTracker.summary; round(x, 4) keeps thousandths unchanged
CostSummary(c) == [api_calls |-> c.calls, cost_usd |-> c.estimated]

(* ---------------- outcomes of a per-item call ---------------- *)
\* the value a call returns, or the exception that leaves it
Summary(text) == [kind |-> "summary", text |-> text, query |-> "", attempts |-> 0, msg |-> ""]
NonString == [kind |-> "nonstring", text |-> NoText, query |-> "", attempts |-> 0, msg |-> ""]
\* f"No results found for: {item.query}"
NoResults(q) == [kind |-> "no_results", text |-> NoText, query |-> q, attempts |-> 0, msg |-> ""]
\* f"Search failed after {config.MAX_RETRIES} attempts: {item.query}"
RetriesExhausted(q) ==
  [kind |-> "failed", text |-> NoText, query |-> q, attempts |-> MAX_RETRIES, msg |-> ""]
Raised(msg) == [kind |-> "exception", text |-> NoText, query |-> "", attempts |-> 0, msg |-> msg]
\* f"Search failed: {str(result)}"
SearchFailed(msg) == [kind |-> "search_failed", text |-> NoText, query |-> "", attempts |-> 0, msg |-> msg]
NoOutcome == [kind |-> "none", text |-> NoText, query |-> "", attempts |-> 0, msg |-> ""]

IsString(o) == o.kind \in {"summary", "no_results", "failed", "search_failed"}
IsSentinel(o) == o.kind \in {"no_results", "failed", "search_failed"}

\* ddg_search: every exception of the provider is caught and becomes []
DdgSearch(provider) ==
  IF provider = "snippets" THEN <<"snippet">> ELSE <<>>


(* ---------------- the result envelope ---------------- *)
None == [isnone |-> TRUE, value |-> <<>>]
\* model_dump() of the plan or of the report
ModelDump(x) == [isnone |-> FALSE, value |-> x]
NoEnvelope == [status |-> "none"]

\* lines 411-417
SuccessEnvelope(report, searchPlan, c, d) ==
  [report |-> ModelDump(report), plan |-> ModelDump(searchPlan),
   costs |-> CostSummary(c), duration |-> d, status |-> "success"]

\* a variant of the except branch that leaves the message out
ErrorEnvelopeNoMessage(e, c, d) ==
  [report |-> None, plan |-> None, costs |-> CostSummary(c), duration |-> d,
   status |-> "error"]

\* lines 421-428, the except branch of run_deep_research; e is str(e)
ErrorEnvelope(e, c, d) ==
  [report |-> None, plan |-> None, costs |-> CostSummary(c), duration |-> d,
   status |-> "error", error |-> e]

(* ---------------- state ---------------- *)
VARIABLES
  proc,         \* "running", or "crashed" when cache = PersistentCache() raised
  cacheData,    \* cache.data
  costs,        \* the CostTracker singleton
  pc,           \* run_deep_research: "idle", "planning", "searching", "synthesizing", "returned"
  runNo,        \* runs started
  planned,      \* items planned over all runs
  cb,           \* the progress_callback argument of the run
  plan,         \* plan.searches, as the sequence of the items' queries
  batchStart,   \* i of the batch loop of run_all_searches
  results,      \* results of run_all_searches
  tasks,        \* the bounded_search tasks of the current batch
  sem,          \* value of the semaphore
  summaries,    \* what run_all_searches returned
  envelope,     \* what the last run returned
  hist          \* history of the run, for stating the properties

vars == <<proc, cacheData, costs, pc, runNo, planned, cb, plan, batchStart,
          results, tasks, sem, summaries, envelope, hist>>

Slots == 1..MAX_CONCURRENT_SEARCHES
CALLBACK_ERROR == "callback failed"
NoPred == [known |-> FALSE, cold |-> FALSE, outcome |-> NoOutcome]

\* a bounded_search task: where it is (pc), its item and the attempt index of
\* the retry loop; the other fields are the history of its per-item call
IdleTask ==
  [pc |-> "unused", item |-> 0, query |-> "", batch |-> 0, attempt |-> 0,
   outcome |-> NoOutcome, nSearch |-> 0, nProvRaise |-> 0, nEmpty |-> 0, nSumm |-> 0,
   nSummOK |-> 0, nSleep |-> 0, nCost |-> 0, nCb |-> 0, paced |-> FALSE,
   hit |-> FALSE, cold |-> FALSE, bad |-> FALSE, hitTopic |-> "", pred |-> NoPred]

NewTask(q, index, batchNum) ==
  [IdleTask EXCEPT !.pc = "ready", !.item = index, !.query = q, !.batch = batchNum]

\* history of one run
NoHist ==
  [modelCalls |-> 0,      \* model calls that returned in this run
   modelCost |-> 0,       \* the sum of their cost estimates
   searched |-> FALSE,    \* run_all_searches has returned
   outOfOrder |-> FALSE,  \* an item finished before an earlier item of its batch
   summItems |-> {},      \* plan items with a summarizer call that returned
   summOK |-> 0,          \* summarizer calls that returned in this run
   itemOutcome |-> <<>>,  \* what the per-item call of each plan item gave
   searchRaised |-> "",   \* why run_all_searches raised, "" when it did not
   cbRaised |-> 0,        \* times the callback raised inside per-item calls
   plannerCalls |-> 0, writerCalls |-> 0,  \* Runner.run calls started
   plannerOK |-> FALSE, writerOK |-> FALSE,  \* Runner.run calls that returned
   searchStarted |-> FALSE,                   \* run_all_searches was called
   reportCalls |-> 0,                         \* calls of generate_report
   lastCall |-> [q \in Queries |-> NoPred],  \* last finished per-item call per query
   \* the topic under which each entry was written, against the topic of the
   \* current run: "same", "other", "" for the entries of the initial document
   cachedUnder |-> [h \in Hashes |-> ""]]

\* what a callback can do at one call site: the second argument says whether
\* it may still raise
CbChoices(mode, may) == IF mode = "present" /\ may THEN BOOLEAN ELSE {FALSE}

(* ---------------- run_single_search ---------------- *)
Done(t, o) == [t EXCEPT !.pc = "done", !.outcome = o]

\* a variant of the except block that starts the loop again after the last attempt
HandlerStartsAgain(t, c321) ==
  IF t.attempt < MAX_RETRIES - 1
  THEN IF c321 THEN Done([t EXCEPT !.nCb = @ + 1], Raised(CALLBACK_ERROR))
       ELSE [t EXCEPT !.pc = "backoff", !.nSleep = @ + 1]
  ELSE [t EXCEPT !.pc = "backoff", !.attempt = -1]

\* lines 315-325: the except block; c321 says the "Retrying" callback raises
Handler(t, c321) ==
  IF t.attempt < MAX_RETRIES - 1
  THEN IF c321 THEN Done([t EXCEPT !.nCb = @ + 1], Raised(CALLBACK_ERROR))
       ELSE [t EXCEPT !.pc = "backoff", !.nSleep = @ + 1]
  ELSE Done(t, RetriesExhausted(t.query))

\* a variant of lines 292-294 that takes an empty result for a failed attempt
AttemptRetriesEmpty(t, c288, provider, c302, c321) ==
  IF c288 THEN Handler([t EXCEPT !.nCb = @ + 1], c321)
  ELSE LET raw_results == DdgSearch(provider)
           t1 == [t EXCEPT !.nSearch = @ + 1,
                           !.nProvRaise = @ + (IF provider = "raise" THEN 1 ELSE 0),
                           !.nEmpty = @ + (IF raw_results = <<>> THEN 1 ELSE 0)]
       IN IF raw_results = <<>> THEN Handler(t1, c321)
          ELSE IF c302 THEN Handler([t1 EXCEPT !.nCb = @ + 1], c321)
          ELSE [t1 EXCEPT !.pc = "summarizing", !.nSumm = @ + 1]

\* lines 286-304: one attempt up to the await of the summarizer
Attempt(t, c288, provider, c302, c321) ==
  IF c288 THEN Handler([t EXCEPT !.nCb = @ + 1], c321)
  ELSE LET raw_results == DdgSearch(provider)
           t1 == [t EXCEPT !.nSearch = @ + 1,
                           !.nProvRaise = @ + (IF provider = "raise" THEN 1 ELSE 0),
                           !.nEmpty = @ + (IF raw_results = <<>> THEN 1 ELSE 0)]
       IN IF raw_results = <<>> THEN Done(t1, NoResults(t.query))
          ELSE IF c302 THEN Handler([t1 EXCEPT !.nCb = @ + 1], c321)
          ELSE [t1 EXCEPT !.pc = "summarizing", !.nSumm = @ + 1]

\* a variant of line 279 that expects the bare strings of an older document
IsHitBareString(cached) == Truthy(cached) /\ ~cached.isdict

\* line 279: if cached and isinstance(cached, dict)
IsHit(cached) == Truthy(cached) /\ cached.isdict

\* an entry as PersistentCache.set writes it
WellFormed(v) == v.isdict /\ v.keys = {"value", "timestamp"} /\ v.isstr

\* lines 278-285: the cache check, then the first attempt
RunSingleSearch(t, data, under, c282, c288, provider, c302, c321) ==
  IF GetRaises(data) THEN Done([t EXCEPT !.bad = TRUE], Raised("AttributeError"))
  ELSE LET cached == Get(data, t.query)
           t0 == [t EXCEPT !.cold = ~cached.present,
                           !.bad = cached.present /\ ~WellFormed(cached)]
       IN IF IsHit(cached)
          THEN LET th == [t0 EXCEPT !.hit = TRUE, !.hitTopic = under[Md5(t.query)]]
               IN IF c282 THEN Done([th EXCEPT !.nCb = @ + 1], Raised(CALLBACK_ERROR))
                  ELSE IF "value" \in cached.keys
                       THEN Done(th, IF cached.isstr THEN Summary(cached.text) ELSE NonString)
                       ELSE Done(th, Raised("'value'"))
          ELSE Attempt([t0 EXCEPT !.attempt = 0], c288, provider, c302, c321)

\* the outcomes drawn for an attempt are those the attempt consults: a
\* callback that is not called and a search that is not made have no outcome
LoopDraw(a, c288, provider, c302, c321) ==
  /\ c288 => provider = "snippets" /\ ~c302
  /\ provider # "snippets" => ~c302 /\ ~c321
  /\ c321 => (c288 \/ c302) /\ a < MAX_RETRIES - 1

\* the outcomes drawn for a call of run_single_search
CallDraw(t, data, c282, c288, provider, c302, c321) ==
  IF GetRaises(data) \/ IsHit(Get(data, t.query))
  THEN ~c288 /\ ~c302 /\ ~c321 /\ provider = "snippets" /\ (GetRaises(data) => ~c282)
  ELSE ~c282 /\ LoopDraw(0, c288, provider, c302, c321)

(* ---------------- initial state ---------------- *)
Init ==
  /\ \E disk \in InitialDisks :
       /\ proc = IF LoadRaises(disk) THEN "crashed" ELSE "running"
       /\ cacheData = Load(disk)
  /\ costs = ZeroCosts
  /\ pc = "idle"
  /\ runNo = 0
  /\ planned = 0
  /\ cb = "none"
  /\ plan = <<>>
  /\ batchStart = 0
  /\ results = <<>>
  /\ tasks = [s \in Slots |-> IdleTask]
  /\ sem = MAX_CONCURRENT_SEARCHES
  /\ summaries = <<>>
  /\ envelope = NoEnvelope
  /\ hist = NoHist

(* ---------------- run_all_searches ---------------- *)
NoTasks == [s \in Slots |-> IdleTask]

\* lines 346 and 352: the tasks of the batch that starts after the first i items
BatchTasks(searches, i) ==
  [s \in Slots |->
     IF i + s <= Len(searches)
     THEN NewTask(searches[i + s], i + s, i \div MAX_CONCURRENT_SEARCHES)
     ELSE IdleTask]

\* a variant of line 353 without return_exceptions=True
GatherRaisesOnException(ts) == \E s \in Slots : ts[s].outcome.kind = "exception"

\* line 353: asyncio.gather(*batch_tasks, return_exceptions=True) gives the
\* results in the order of the awaitables, exceptions as values; without the
\* flag the first exception of a task is raised by the await
RETURN_EXCEPTIONS == TRUE

GatherRaises(ts) ==
  ~RETURN_EXCEPTIONS /\ \E s \in Slots : ts[s].outcome.kind = "exception"

\* a variant of the await of line 353 that resumes when one task has finished
BatchFinishedAny(ts) == \E s \in Slots : ts[s].pc = "done"

\* line 353: the await of gather resumes when every task of the batch is done
BatchFinished(ts) == \A s \in Slots : ts[s].pc \in {"unused", "done"}

Gather(ts) ==
  LET n == Cardinality({s \in Slots : ts[s].pc # "unused"})
  IN [s \in 1..n |-> ts[s].outcome]

\* a variant of lines 359-365 that filters the exceptions out
SummariesOfFiltered(res) == SelectSeq(res, LAMBDA o : o.kind # "exception")

\* lines 359-365: exceptions become "Search failed: ..." strings
SummariesOf(res) ==
  [i \in 1..Len(res) |->
     IF res[i].kind = "exception" THEN SearchFailed(res[i].msg) ELSE res[i]]

\* the call the task makes is in sequence after the last finished call for its
\* query when no other call for that query is under way
WithPred(t) ==
  [t EXCEPT !.pred =
     IF \E r \in Slots : tasks[r].query = t.query /\ tasks[r].pc \in {"summarizing", "backoff"}
     THEN NoPred ELSE hist.lastCall[t.query]]

\* the history after the step that took the task of a slot from t to t2
HistTask(h, t, t2) ==
  LET h1 == [h EXCEPT !.cbRaised = @ + (t2.nCb - t.nCb)]
  IN IF t2.pc = "done"
     THEN [h1 EXCEPT !.itemOutcome[t2.item] = t2.outcome,
                     !.outOfOrder = @ \/ \E r \in Slots :
                                            tasks[r].item # 0 /\ tasks[r].item < t2.item
                                            /\ tasks[r].pc # "done",
                     !.lastCall[t2.query] =
                        [known |-> TRUE, cold |-> t2.cold, outcome |-> t2.outcome]]
     ELSE h1

\* the callback raises at most MaxCallbackRaises times in the per-item calls
WithinRaises(t, t2) == hist.cbRaised + (t2.nCb - t.nCb) <= MaxCallbackRaises

MayRaise == hist.cbRaised < MaxCallbackRaises

\* the batch loop from index i with the results so far (lines 345-356), the
\* return of run_all_searches and the start of generate_report (lines 371-375)
LoopStep(searches, i, res, c350, c372, cst, h) ==
  /\ batchStart' = i
  /\ results' = res
  /\ IF i < Len(searches)
     THEN /\ summaries' = <<>>
          /\ IF c350
             THEN /\ pc' = "returned" /\ envelope' \in {ErrorEnvelope(CALLBACK_ERROR, cst, d) : d \in Durations}
                  /\ tasks' = NoTasks
                  /\ hist' = [h EXCEPT !.searchRaised = "callback"]
             ELSE /\ pc' = "searching"
                  /\ envelope' = NoEnvelope
                  /\ tasks' = BatchTasks(searches, i)
                  /\ hist' = h
     ELSE /\ summaries' = SummariesOf(res)
          /\ tasks' = NoTasks
          /\ IF c372
             THEN /\ pc' = "returned" /\ envelope' \in {ErrorEnvelope(CALLBACK_ERROR, cst, d) : d \in Durations}
                  /\ hist' = [h EXCEPT !.searched = TRUE, !.reportCalls = @ + 1]
             ELSE /\ pc' = "synthesizing"
                  /\ envelope' = NoEnvelope
                  /\ hist' = [h EXCEPT !.searched = TRUE, !.reportCalls = @ + 1,
                                       !.writerCalls = @ + 1]

(* ---------------- run_deep_research ---------------- *)
\* cachedUnder when a run starts with topic tp
UnderTopic(under, tp) ==
  [h \in Hashes |->
     IF tp = "same" \/ under[h] = "" THEN under[h]
     ELSE IF under[h] = "same" THEN "other" ELSE "same"]

\* lines 386-395: reset, the first callback, the call of the planner
StartRun(tp, mode, c394) ==
  /\ proc = "running"
  /\ pc \in {"idle", "returned"}
  /\ runNo < MaxRuns
  /\ runNo = 0 => tp = "other"
  /\ runNo' = runNo + 1
  /\ cb' = mode
  /\ costs' = Reset(costs)
  /\ plan' = <<>>
  /\ results' = <<>>
  /\ summaries' = <<>>
  /\ batchStart' = 0
  /\ tasks' = NoTasks
  /\ IF c394
     THEN /\ pc' = "returned" /\ envelope' \in {ErrorEnvelope(CALLBACK_ERROR, costs', d) : d \in Durations}
          /\ hist' = [NoHist EXCEPT !.cachedUnder = UnderTopic(hist.cachedUnder, tp),
                                !.cbRaised = hist.cbRaised]
     ELSE /\ pc' = "planning"
          /\ envelope' = NoEnvelope
          /\ hist' = [NoHist EXCEPT !.cachedUnder = UnderTopic(hist.cachedUnder, tp),
                                !.cbRaised = hist.cbRaised, !.plannerCalls = 1]
  /\ UNCHANGED <<proc, cacheData, sem, planned>>

\* generate_plan: Runner.run(planner, ...) raises
PlannerRaises(msg) ==
  /\ pc = "planning"
  /\ pc' = "returned" /\ envelope' \in {ErrorEnvelope(msg, costs, d) : d \in Durations}
  /\ UNCHANGED <<proc, cacheData, costs, runNo, planned, cb, plan, batchStart,
                 results, tasks, sem, summaries, hist>>

\* generate_plan returns (lines 272-273), then lines 398-400 and the entry of
\* run_all_searches up to its first await
PlannerReturns(p, c399, c350, c372) ==
  /\ pc = "planning"
  /\ planned + Len(p) <= MaxItems
  /\ planned' = planned + Len(p)
  /\ costs' = Add(costs, PLAN_COST)
  /\ plan' = p
  /\ LET h == [hist EXCEPT !.modelCalls = @ + 1, !.modelCost = @ + PLAN_COST,
                           !.plannerOK = TRUE,
                           !.itemOutcome = [i \in 1..Len(p) |-> NoOutcome]]
     IN IF c399
        THEN /\ pc' = "returned" /\ envelope' \in {ErrorEnvelope(CALLBACK_ERROR, costs', d) : d \in Durations}
             /\ hist' = h
             /\ UNCHANGED <<batchStart, results, tasks, sem, summaries>>
        ELSE /\ sem' = MAX_CONCURRENT_SEARCHES
             /\ LoopStep(p, 0, <<>>, c350, c372, costs',
                         [h EXCEPT !.searchStarted = TRUE])
  /\ UNCHANGED <<proc, cacheData, runNo, cb>>

\* a bounded_search task starts: it takes its slot, then sleeps the pacing
\* delay (line 334-336) or enters run_single_search
TaskStart(s, c282, c288, provider, c302, c321) ==
  /\ pc = "searching"
  /\ tasks[s].pc = "ready"
  /\ \A r \in Slots : r < s => tasks[r].pc # "ready"
  /\ sem > 0
  /\ IF tasks[s].batch > 0
     THEN ~c282 /\ ~c288 /\ ~c302 /\ ~c321 /\ provider = "snippets"
     ELSE CallDraw(tasks[s], cacheData, c282, c288, provider, c302, c321)
  /\ LET t == tasks[s]
         t2 == IF t.batch > 0
               THEN [t EXCEPT !.pc = "delay", !.paced = TRUE]
               ELSE RunSingleSearch(WithPred(t), cacheData, hist.cachedUnder,
                                    c282, c288, provider, c302, c321)
     IN /\ WithinRaises(t, t2)
        /\ tasks' = [tasks EXCEPT ![s] = t2]
        /\ sem' = IF t2.pc = "done" THEN sem ELSE sem - 1
        /\ hist' = HistTask(hist, t, t2)
  /\ UNCHANGED <<proc, cacheData, costs, pc, runNo, planned, cb, plan,
                 batchStart, results, summaries, envelope>>

\* the pacing sleep ends and run_single_search is entered (line 337)
DelayDone(s, c282, c288, provider, c302, c321) ==
  /\ pc = "searching"
  /\ tasks[s].pc = "delay"
  /\ CallDraw(tasks[s], cacheData, c282, c288, provider, c302, c321)
  /\ LET t == tasks[s]
         t2 == RunSingleSearch(WithPred(t), cacheData, hist.cachedUnder,
                               c282, c288, provider, c302, c321)
     IN /\ WithinRaises(t, t2)
        /\ tasks' = [tasks EXCEPT ![s] = t2]
        /\ sem' = IF t2.pc = "done" THEN sem + 1 ELSE sem
        /\ hist' = HistTask(hist, t, t2)
  /\ UNCHANGED <<proc, cacheData, costs, pc, runNo, planned, cb, plan,
                 batchStart, results, summaries, envelope>>

\* Runner.run(summarizer, ...) returns: lines 305-313
SummarizerReturns(s, save, c311, c321) ==
  /\ pc = "searching"
  /\ tasks[s].pc = "summarizing"
  /\ c321 => c311 /\ tasks[s].attempt < MAX_RETRIES - 1
  /\ costs' = Add(costs, SUMMARY_COST)
  /\ LET t == tasks[s]
         clean == Strip(SummarizerOutput(t.query))
         t1 == [t EXCEPT !.nSummOK = @ + 1, !.nCost = @ + 1]
         t2 == IF SaveRaises(save) THEN Handler(t1, c321)
               ELSE IF c311 THEN Handler([t1 EXCEPT !.nCb = @ + 1], c321)
               ELSE Done(t1, Summary(clean))
         h == [hist EXCEPT !.modelCalls = @ + 1, !.modelCost = @ + SUMMARY_COST,
                           !.summItems = @ \cup {t.item}, !.summOK = @ + 1,
                           !.cachedUnder[Md5(t.query)] = "same"]
     IN /\ WithinRaises(t, t2)
        /\ cacheData' = Set(cacheData, t.query, clean)
        /\ tasks' = [tasks EXCEPT ![s] = t2]
        /\ sem' = IF t2.pc = "done" THEN sem + 1 ELSE sem
        /\ hist' = HistTask(h, t, t2)
  /\ UNCHANGED <<proc, pc, runNo, planned, cb, plan, batchStart, results,
                 summaries, envelope>>

\* Runner.run(summarizer, ...) raises: the except block
SummarizerRaises(s, c321) ==
  /\ pc = "searching"
  /\ tasks[s].pc = "summarizing"
  /\ c321 => tasks[s].attempt < MAX_RETRIES - 1
  /\ LET t == tasks[s]
         t2 == Handler(t, c321)
     IN /\ WithinRaises(t, t2)
        /\ tasks' = [tasks EXCEPT ![s] = t2]
        /\ sem' = IF t2.pc = "done" THEN sem + 1 ELSE sem
        /\ hist' = HistTask(hist, t, t2)
  /\ UNCHANGED <<proc, cacheData, costs, pc, runNo, planned, cb, plan,
                 batchStart, results, summaries, envelope>>

\* the backoff sleep ends (line 322): the next attempt of the loop
BackoffDone(s, c288, provider, c302, c321) ==
  /\ pc = "searching"
  /\ tasks[s].pc = "backoff"
  /\ LoopDraw(tasks[s].attempt + 1, c288, provider, c302, c321)
  /\ LET t == tasks[s]
         t2 == Attempt([t EXCEPT !.attempt = @ + 1], c288, provider, c302, c321)
     IN /\ WithinRaises(t, t2)
        /\ tasks' = [tasks EXCEPT ![s] = t2]
        /\ sem' = IF t2.pc = "done" THEN sem + 1 ELSE sem
        /\ hist' = HistTask(hist, t, t2)
  /\ UNCHANGED <<proc, cacheData, costs, pc, runNo, planned, cb, plan,
                 batchStart, results, summaries, envelope>>

\* every task of the batch has finished: line 354, then the next batch
GatherDone(c350, c372) ==
  /\ pc = "searching"
  /\ BatchFinished(tasks)
  /\ IF GatherRaises(tasks)
     THEN /\ pc' = "returned"
          /\ LET s == CHOOSE r \in Slots : tasks[r].outcome.kind = "exception"
             IN envelope' \in {ErrorEnvelope(tasks[s].outcome.msg, costs, d) : d \in Durations}
          /\ hist' = [hist EXCEPT !.searchRaised = "item"]
          /\ tasks' = NoTasks
          /\ UNCHANGED <<batchStart, results, summaries>>
     ELSE LoopStep(plan, batchStart + MAX_CONCURRENT_SEARCHES, results \o Gather(tasks),
                   c350, c372, costs, hist)
  /\ UNCHANGED <<proc, cacheData, costs, runNo, planned, cb, plan, sem>>

\* a variant of generate_report that calls the writer again when it raises
WriterRaisesRetries(msg) ==
  /\ pc = "synthesizing"
  /\ hist' = [hist EXCEPT !.writerCalls = @ + 1]
  /\ UNCHANGED <<proc, cacheData, costs, pc, runNo, planned, cb, plan, batchStart,
                 results, tasks, sem, summaries, envelope>>

\* generate_report: Runner.run(writer, ...) raises
WriterRaises(msg) ==
  /\ pc = "synthesizing"
  /\ pc' = "returned" /\ envelope' \in {ErrorEnvelope(msg, costs, d) : d \in Durations}
  /\ UNCHANGED <<proc, cacheData, costs, runNo, planned, cb, plan, batchStart,
                 results, tasks, sem, summaries, hist>>

\* generate_report returns (lines 376-378), then lines 405-417
WriterReturns(c409) ==
  /\ pc = "synthesizing"
  /\ costs' = Add(costs, REPORT_COST)
  /\ hist' = [hist EXCEPT !.modelCalls = @ + 1, !.modelCost = @ + REPORT_COST,
                          !.writerOK = TRUE]
  /\ pc' = "returned"
  /\ envelope' \in {IF c409 THEN ErrorEnvelope(CALLBACK_ERROR, costs', d)
                            ELSE SuccessEnvelope(summaries, plan, costs', d) : d \in Durations}
  /\ UNCHANGED <<proc, cacheData, runNo, planned, cb, plan, batchStart,
                 results, tasks, sem, summaries>>

\* the plans the planner returns: none, one, a batch, and a batch and an item
\* that repeats a query
Plans == {<<>>, <<"q1">>, <<"q1", "q2">>, <<"q1", "q2", "q1">>}

\* the tasks of the batch at a position
SlotsAt(p) == {s \in Slots : tasks[s].pc = p}

\* the steps of a run that has started: the returns of its awaits
RunStep ==
  \/ \E msg \in ExcMsgs : PlannerRaises(msg)
  \/ \E p \in Plans : \E c399, c350, c372 \in CbChoices(cb, MayRaise) :
       PlannerReturns(p, c399, c350, c372)
  \/ \E s \in SlotsAt("ready"), provider \in ProviderOutcomes :
       \E c282, c288, c302, c321 \in CbChoices(cb, MayRaise) :
         TaskStart(s, c282, c288, provider, c302, c321)
  \/ \E s \in SlotsAt("delay"), provider \in ProviderOutcomes :
       \E c282, c288, c302, c321 \in CbChoices(cb, MayRaise) :
         DelayDone(s, c282, c288, provider, c302, c321)
  \/ \E s \in SlotsAt("summarizing"), save \in SaveOutcomes :
       \E c311, c321 \in CbChoices(cb, MayRaise) :
         SummarizerReturns(s, save, c311, c321)
  \/ \E s \in SlotsAt("summarizing") : \E c321 \in CbChoices(cb, MayRaise) :
       SummarizerRaises(s, c321)
  \/ \E s \in SlotsAt("backoff"), provider \in ProviderOutcomes :
       \E c288, c302, c321 \in CbChoices(cb, MayRaise) :
         BackoffDone(s, c288, provider, c302, c321)
  \/ \E c350, c372 \in CbChoices(cb, MayRaise) : GatherDone(c350, c372)
  \/ \E msg \in ExcMsgs : WriterRaises(msg)
  \/ \E c409 \in CbChoices(cb, MayRaise) : WriterReturns(c409)

Next ==
  \/ \E tp \in Topics, mode \in CallbackModes : \E c394 \in CbChoices(mode, TRUE) :
       StartRun(tp, mode, c394)
  \/ RunStep

Spec == Init /\ [][Next]_vars

\* every await of a run that has started eventually returns or raises; no
\* further run need ever be started
LiveSpec == Init /\ [][Next]_vars /\ WF_vars(RunStep)


(***************************************************************************)
(* Properties                                                              *)
(***************************************************************************)
Returned == pc = "returned"
DoneTasks == {s \in Slots : tasks[s].pc = "done"}

\* C1: whatever the planner, the searches, the summarizer and the writer do,
\* run_deep_research returns an envelope whose status is "success" or
\* "error", and the error string of an "error" envelope is not empty.
C1_EnvelopeTotality ==
  Returned =>
    /\ envelope.status \in {"success", "error"}
    /\ envelope.status = "error" => envelope.error # ""

\* C2: a per-item call made without a progress callback never raises and
\* returns a string, whatever the cache holds and whatever the search
\* provider and the summarizer do.
C2_PerItemCallReturnsString ==
  \A s \in DoneTasks : cb = "none" => IsString(tasks[s].outcome)

\* C3: a per-item call for an item that is not in the cache, whose search
\* provider raised on every call, has made MAX_RETRIES search attempts and
\* returns the retry-exhausted sentinel with the query and the attempt count.
C3_RetryBound ==
  \A s \in DoneTasks :
    LET t == tasks[s]
    IN (~t.hit /\ t.nSearch >= 1 /\ t.nProvRaise = t.nSearch) =>
         /\ t.nSearch = MAX_RETRIES
         /\ t.outcome = RetriesExhausted(t.query)

\* the entry of the summaries that stands for the outcome of a per-item call
EntryFor(o) == IF o.kind = "exception" THEN SearchFailed(o.msg) ELSE o

\* C4: run_all_searches returns one entry per plan item, entry i being the
\* outcome of plan item i, whatever the order in which the tasks finish; the
\* exception of a per-item call neither makes run_all_searches raise nor
\* drops an entry.
C4_OrderPreserved ==
  /\ hist.searchRaised \in {"", "callback"}
  /\ pc = "searching" =>
       /\ Len(results) = batchStart
       /\ \A i \in 1..Len(results) : results[i] = hist.itemOutcome[i]
  /\ hist.searched =>
       /\ Len(summaries) = Len(plan)
       /\ \A i \in 1..Len(plan) :
            /\ hist.itemOutcome[i].kind # "none"
            /\ summaries[i] = EntryFor(hist.itemOutcome[i])

C4_Witness ==
  /\ hist.searched
  /\ Len(plan) = 3
  /\ hist.outOfOrder
  /\ \E i, j \in 1..Len(plan) :
       /\ hist.itemOutcome[i].kind = "exception"
       /\ hist.itemOutcome[j].kind = "summary"

\* the per-item call of the task follows, in sequence, a call for the same
\* query that started with no entry for the query and returned a string
SecondCall(t) == t.pred.known /\ t.pred.cold /\ IsString(t.pred.outcome)

NoExternalCall(t) == t.nSearch = 0 /\ t.nSumm = 0 /\ t.nCost = 0 /\ t.nSleep = 0

C6_ApiCallsCountItems ==
  (Returned /\ envelope.status = "success") =>
    envelope.costs.api_calls = 1 + Cardinality(hist.summItems) + 1

\* C7: the costs a second or later run reports are those of the model calls
\* made during that run; nothing of the runs before it is carried over.
C7_CostReset ==
  (Returned /\ runNo >= 2) =>
    envelope.costs = [api_calls |-> hist.modelCalls, cost_usd |-> hist.modelCost]

\* a later run has returned after an earlier run planned items, hence made calls
C7_Witness ==
  /\ Returned /\ runNo = 2
  /\ planned > Len(plan)
  /\ hist.modelCalls >= 1
  /\ envelope.costs.api_calls = hist.modelCalls

\* C8: the envelope has an error field exactly when its status is "error";
\* report and plan are both set on "success" and both null on "error", also
\* when planning had succeeded; costs and duration are always there.
C8_EnvelopeShape ==
  Returned =>
    /\ ("error" \in DOMAIN envelope) <=> (envelope.status = "error")
    /\ {"costs", "duration", "report", "plan"} \subseteq DOMAIN envelope
    /\ envelope.status = "success" => ~envelope.report.isnone /\ ~envelope.plan.isnone
    /\ envelope.status = "error" => envelope.report.isnone /\ envelope.plan.isnone

C8_Witness ==
  /\ Returned
  /\ envelope.status = "error"
  /\ hist.plannerCalls = 1 /\ hist.modelCalls >= 1 /\ plan # <<>>
  /\ envelope.plan.isnone

\* C9: whatever the cache document is (missing, unreadable, not JSON, or JSON
\* that is not a mapping of well-formed entries), PersistentCache() does not
\* fail, and a lookup that meets such content does not fail and is a miss.
C9_CorruptCacheBehavesEmpty ==
  /\ proc # "crashed"
  /\ \A s \in DoneTasks :
       LET t == tasks[s]
       IN t.bad => ~t.hit /\ t.outcome.kind # "exception"

\* C10: the cache key is computed from (topic, item.query): a per-item call is
\* never a cache hit on an entry written while another topic was researched.
C10_CacheKeyScopedByTopic ==
  \A s \in Slots :
    LET t == tasks[s]
    IN (t.hit /\ t.hitTopic # "") => t.hitTopic = "same"

\* the per-item call of the task went past the cache check into the retry loop
InLoop(t) ==
  /\ t.pc \in {"summarizing", "backoff", "done"}
  /\ ~t.hit /\ t.outcome # Raised("AttributeError")

\* C11: in a per-item call on a cache miss whose searches return snippets, a
\* failed attempt is followed by one backoff sleep exactly when attempts
\* remain; once the summarizer has succeeded, after k failures, the call has
\* returned the summary with k+1 attempts and k sleeps; after MAX_RETRIES
\* failures it has returned the retry-exhausted sentinel with MAX_RETRIES
\* attempts and MAX_RETRIES-1 sleeps; it never ends in an exception.
C11_RetryProtocol ==
  \A s \in Slots :
    LET t == tasks[s]
    IN InLoop(t) =>
         /\ t.nSleep = (IF t.pc = "backoff" THEN t.attempt + 1 ELSE t.attempt)
         /\ t.nSummOK >= 1 =>
              /\ t.pc = "done" /\ t.outcome.kind = "summary"
              /\ t.nSummOK = 1 /\ t.attempt + 1 = t.nSumm /\ t.nSleep = t.nSumm - 1
         /\ (t.pc # "summarizing" /\ t.nSumm = MAX_RETRIES /\ t.nSummOK = 0) =>
              /\ t.pc = "done" /\ t.outcome = RetriesExhausted(t.query)
              /\ t.attempt + 1 = MAX_RETRIES /\ t.nSleep = MAX_RETRIES - 1
         /\ t.pc = "done" => t.outcome.kind # "exception"

\* C12: once a search of a per-item call has returned zero snippets the call
\* has returned the "no results" sentinel: that search was its last, no
\* summarizer call and no cost increment was made for that attempt, and no
\* sleep followed it.
C12_ZeroSnippetsStop ==
  \A s \in Slots :
    LET t == tasks[s]
    IN t.nEmpty >= 1 =>
         /\ t.pc = "done" /\ t.outcome = NoResults(t.query)
         /\ t.nEmpty = 1 /\ t.nSearch <= t.attempt + 1
         /\ t.nSumm <= t.nSearch - 1 /\ t.nCost <= t.nSumm
         /\ t.nSleep = t.attempt

\* the second attempt of a call, after a failed one, found nothing
C12_Witness ==
  \E s \in DoneTasks :
    LET t == tasks[s]
    IN t.nEmpty = 1 /\ t.attempt = 1 /\ t.nSumm = 1 /\ t.outcome.kind = "no_results"

\* the tasks that hold a slot of the semaphore
InFlight == {s \in Slots : tasks[s].pc \in {"delay", "summarizing", "backoff"}}

\* C13: the tasks in flight are those that hold a slot of the semaphore, at
\* most MAX_CONCURRENT_SEARCHES; the tasks that exist are those of the current
\* batch, and once one of them has started every item of the batches before
\* it has returned.
C13_BoundedSequentialBatches ==
  /\ sem >= 0
  /\ Cardinality(InFlight) = MAX_CONCURRENT_SEARCHES - sem
  /\ \A s \in Slots :
       tasks[s].pc # "unused" =>
         /\ tasks[s].batch = batchStart \div MAX_CONCURRENT_SEARCHES
         /\ tasks[s].item = batchStart + s
  /\ (\E s \in Slots : tasks[s].pc \notin {"unused", "ready"}) =>
       /\ Len(results) = batchStart
       /\ \A i \in 1..batchStart : results[i].kind # "none"

\* a task of the second batch is in flight after the two tasks of the first
\* batch, which were in flight together, returned
C13_Witness ==
  /\ \E s \in InFlight : tasks[s].batch = 1
  /\ Len(results) = MAX_CONCURRENT_SEARCHES
  /\ hist.outOfOrder

\* C14: a task sleeps its pacing delay before it takes its slot, so the slots
\* taken are those of the tasks inside their per-item call and none is held
\* by a task in its pacing delay; the tasks of the first batch do not sleep
\* the delay and the tasks of the later batches have slept it before their
\* per-item call starts.
C14_PacingBeforeSlot ==
  /\ MAX_CONCURRENT_SEARCHES - sem =
       Cardinality({s \in Slots : tasks[s].pc \in {"summarizing", "backoff"}})
  /\ \A s \in Slots :
       LET t == tasks[s]
       IN /\ t.batch = 0 => ~t.paced /\ t.pc # "delay"
          /\ (t.batch > 0 /\ t.pc \in {"summarizing", "backoff", "done"}) => t.paced

\* every item of the plan has an outcome
AllItemsFinished == \A i \in 1..Len(plan) : hist.itemOutcome[i].kind # "none"

\* C15: the search stage is entered only after the planner has returned;
\* generate_report is called once, when run_all_searches has run the tasks of
\* all the items of the plan, whatever their outcomes were, and not before;
\* a "success" envelope is returned only after the writer has returned.
C15_OrchestratorOrdering ==
  /\ (hist.searchStarted \/ pc \in {"searching", "synthesizing"}) => hist.plannerOK
  /\ hist.reportCalls <= 1
  /\ hist.reportCalls = 1 =>
       hist.searchStarted /\ AllItemsFinished /\ pc \in {"synthesizing", "returned"}
  /\ (hist.searchStarted /\ AllItemsFinished /\ pc # "searching") => hist.reportCalls = 1
  /\ pc = "synthesizing" => hist.reportCalls = 1 /\ ~hist.writerOK
  /\ (Returned /\ envelope.status = "success") =>
       hist.plannerOK /\ hist.reportCalls = 1 /\ hist.writerCalls = 1 /\ hist.writerOK

\* a run returned "success" although every one of its items ended in a
\* sentinel or an exception
C15_Witness ==
  /\ Returned /\ envelope.status = "success"
  /\ Len(plan) >= 2
  /\ \A i \in 1..Len(plan) : IsSentinel(summaries[i])
  /\ \E i \in 1..Len(plan) : hist.itemOutcome[i].kind = "exception"

\* the run returned because the call of the planner, or of the writer, raised
PlannerFailed == Returned /\ hist.plannerCalls = 1 /\ ~hist.plannerOK
WriterFailed == Returned /\ hist.writerCalls = 1 /\ ~hist.writerOK

\* C16: a run calls the planner at most once and the writer at most once.
\* When the planner raised, the run made no search, summarizer or writer call
\* and returns "error" with api_calls = 0; when the writer raised, the run
\* returns "error" with the costs of the planning call and of the summarizer
\* calls that had succeeded.
C16_PlannerWriterOnce ==
  /\ hist.plannerCalls <= 1 /\ hist.writerCalls <= 1
  /\ PlannerFailed =>
       /\ envelope.status = "error"
       /\ envelope.costs = [api_calls |-> 0, cost_usd |-> 0]
       /\ ~hist.searchStarted /\ hist.summItems = {} /\ hist.modelCalls = 0
       /\ hist.reportCalls = 0 /\ hist.writerCalls = 0
  /\ WriterFailed =>
       /\ envelope.status = "error"
       /\ hist.modelCalls >= 1 + Cardinality(hist.summItems)
       /\ envelope.costs =
            [api_calls |-> hist.modelCalls,
             cost_usd |-> PLAN_COST + SUMMARY_COST * (hist.modelCalls - 1)]

\* the writer raised in a run that had summarized an item
C16_Witness ==
  /\ WriterFailed
  /\ hist.summItems # {}
  /\ envelope.costs.api_calls >= 2

\* C17: a progress callback does not change what a run does.  A callback acts
\* on the run only by raising, and a run in which it never raises takes the
\* steps of the run without a callback; so the claim is that its exception
\* has no effect: no envelope reports it, no per-item call ends with it, and
\* no attempt of a per-item call fails because of it (every backoff sleep
\* follows a summarizer call that raised, and the retry-exhausted sentinel
\* follows MAX_RETRIES of them).
C17_CallbacksAdvisory ==
  /\ (Returned /\ envelope.status = "error") => envelope.error # CALLBACK_ERROR
  /\ \A s \in Slots :
       LET t == tasks[s]
           failed == t.nSumm - t.nSummOK - (IF t.pc = "summarizing" THEN 1 ELSE 0)
       IN /\ t.outcome # Raised(CALLBACK_ERROR)
          /\ InLoop(t) =>
               /\ t.nSleep <= failed
               /\ t.outcome.kind = "failed" => failed = MAX_RETRIES
               /\ t.nSummOK >= 1 => t.pc = "done" /\ t.outcome.kind = "summary"

\* the entries of the summaries that are summaries, not sentinels
UsableSummaries == {i \in 1..Len(summaries) : summaries[i].kind = "summary"}

\* C18: when the search stage has produced fewer than 3 summaries that are
\* not sentinels, the writer is not called and the run returns "error".
C18_InsufficientMaterialAborts ==
  (hist.searched /\ Cardinality(UsableSummaries) < 3) =>
    /\ hist.writerCalls = 0
    /\ pc = "returned" /\ envelope.status = "error"

\* a run is under way
Running == pc \in {"planning", "searching", "synthesizing"}

\* C19: when every await eventually returns or raises, a run that has started
\* eventually returns its envelope, and no per-item call makes more than
\* MAX_RETRIES attempts or searches.
C19_Termination ==
  /\ [](\A s \in Slots : tasks[s].attempt < MAX_RETRIES /\ tasks[s].nSearch <= MAX_RETRIES)
  /\ Running ~> (Returned /\ envelope.status \in {"success", "error"})

\* a run has returned after one of its items used all its attempts
C19_Witness ==
  /\ Returned /\ envelope.status = "success"
  /\ Len(plan) = 3
  /\ \E i \in 1..Len(plan) : hist.itemOutcome[i] = RetriesExhausted(plan[i])

\* summarizer calls that returned in the tasks of the current batch
RECURSIVE SummOKUpTo(_)
SummOKUpTo(n) == IF n = 0 THEN 0 ELSE tasks[n].nSummOK + SummOKUpTo(n - 1)
BatchSummOK == SummOKUpTo(MAX_CONCURRENT_SEARCHES)

\* C20: CostTracker.add and PersistentCache.set run between two awaits, so
\* whatever the interleaving of the tasks of a batch, after m summarizer calls
\* of a run have returned the counters stand at the planner's call plus m
\* calls and m summary estimates (plus the writer's once it returned), and the
\* cache holds the complete {value, timestamp} entry of the cleaned summary
\* for every query whose summarizer call returned.
C20_AtomicCounterAndCache ==
  LET m == hist.summOK
      planner == IF hist.plannerOK THEN 1 ELSE 0
      writer == IF hist.writerOK THEN 1 ELSE 0
  IN /\ costs.calls = planner + m + writer
     /\ costs.estimated = PLAN_COST * planner + SUMMARY_COST * m + REPORT_COST * writer
     /\ BatchSummOK <= m
     /\ (pc = "searching" /\ batchStart = 0) => BatchSummOK = m
     /\ m >= Cardinality(hist.summItems)
     /\ \A i \in hist.summItems :
          /\ cacheData.ismap
          /\ WellFormed(Get(cacheData, plan[i]))
          /\ Get(cacheData, plan[i]) = CacheEntry(Strip(SummarizerOutput(plan[i])))
     /\ \A s \in Slots : tasks[s].nSummOK >= 1 => tasks[s].item \in hist.summItems

\* both tasks of a batch are past a summarizer call that returned, one of
\* them twice, and the second item finished before the first
C20_Witness ==
  /\ pc = "searching" /\ batchStart = 0
  /\ \A s \in Slots : tasks[s].nSummOK >= 1
  /\ \E s \in Slots : tasks[s].nSummOK = 2
  /\ hist.summOK = 3 /\ costs.calls = 4
  /\ hist.outOfOrder

\* C21: a return of the summarizer whose cache save fails is the step it
\* would be had the save succeeded, callbacks alike: set raises nothing, the
\* entry is in the in-memory document and a lookup of the query is a hit, the
\* run goes on as it was, and unless the callback of line 311 raises the
\* per-item call returns the stripped summary with no retry.
C21_SaveFailureSwallowed ==
  [][\A s \in Slots : \A c311, c321 \in BOOLEAN :
       SummarizerReturns(s, "fails", c311, c321) =>
         LET t == tasks[s]
             clean == Strip(SummarizerOutput(t.query))
         IN /\ SummarizerReturns(s, "ok", c311, c321)
            /\ ~GetRaises(cacheData')
            /\ Get(cacheData', t.query) = CacheEntry(clean)
            /\ IsHit(Get(cacheData', t.query))
            /\ pc' = pc /\ envelope' = envelope
            /\ ~c311 => /\ tasks'[s].pc = "done"
                        /\ tasks'[s].outcome = Summary(clean)
                        /\ tasks'[s].attempt = t.attempt
                        /\ tasks'[s].nSleep = t.nSleep
                        /\ tasks'[s].nSearch = t.nSearch]_vars

\* one item of the batch has returned its summary and the summarizer call of
\* the other can return with a failing save and give its summary
C21_Witness ==
  /\ pc = "searching"
  /\ \E s \in Slots : tasks[s].pc = "done" /\ tasks[s].outcome.kind = "summary"
                        /\ tasks[s].nSummOK = 1
  /\ \E s \in Slots :
       /\ tasks[s].pc = "summarizing"
       /\ ENABLED (/\ SummarizerReturns(s, "fails", FALSE, FALSE)
                   /\ tasks'[s].outcome = Summary(Strip(SummarizerOutput(tasks[s].query))))

\* the per-item call of the task ended with one of the two sentinels
EndedWithSentinel(t) ==
  t.pc = "done" /\ t.outcome \in {NoResults(t.query), RetriesExhausted(t.query)}

\* C22: a per-item call that ended with the no-results or the retry-exhausted
\* sentinel has written nothing to the cache: it made no call of set, and a
\* lookup of its query is still the miss it was when the call started, so a
\* later call for the query searches again.
C22_SentinelsNotCached ==
  \A s \in Slots :
    LET t == tasks[s]
    IN EndedWithSentinel(t) =>
         /\ t.nSummOK = 0
         /\ ~IsHit(Get(cacheData, t.query))

====
